---- MODULE Spec2Model ----
(***************************************************************************)
(* Model of src/filler.py: the class Filler, which holds a private copy   *)
(* of a table and fills the missing cells (fillnan) or the outliers       *)
(* (filloutlier_iqr, filloutlier_sigma) of the configured columns.        *)
(*                                                                         *)
(* Cells are exact rationals <<n, d>> with d > 0 in lowest terms; the     *)
(* missing value NaN is <<0, 0>>.  Arithmetic is exact: the rounding of   *)
(* IEEE doubles is not modelled.  The pandas aggregations the code calls  *)
(* (mean, median, mode, quantile, std, value_counts) are modelled with    *)
(* their default arguments: missing cells are skipped.  The columns are   *)
(* numeric; a comparison with k * std is decided on the squares.          *)
(***************************************************************************)
EXTENDS Integers, Sequences, FiniteSets, TLC

\* ------------------------------------------------------------- bounds
\* Rows of the enumerated input tables.
MaxRows == 3
\* The enumerated cells are NaN and the integers 0 .. MaxVal.
MaxVal == 1
\* Calls made on one instance.
MaxCalls == 2

\* ------------------------------------------------------------- rationals
NaN == <<0, 0>>

IsNaN(x) == x[2] = 0

Abs(n) == IF n < 0 THEN -n ELSE n

RECURSIVE Gcd(_, _)
Gcd(a, b) == IF b = 0 THEN a ELSE Gcd(b, a % b)

\* The rational n/d (d # 0) in lowest terms with a positive denominator.
Norm(n, d) ==
    LET g == Gcd(Abs(n), Abs(d))
        s == IF d < 0 THEN -1 ELSE 1
    IN  <<(s * n) \div g, (s * d) \div g>>

Num(n) == <<n, 1>>

RAdd(x, y) ==
    IF IsNaN(x) \/ IsNaN(y) THEN NaN
    ELSE Norm(x[1] * y[2] + y[1] * x[2], x[2] * y[2])

RSub(x, y) ==
    IF IsNaN(x) \/ IsNaN(y) THEN NaN
    ELSE Norm(x[1] * y[2] - y[1] * x[2], x[2] * y[2])

RMul(x, y) ==
    IF IsNaN(x) \/ IsNaN(y) THEN NaN
    ELSE Norm(x[1] * y[1], x[2] * y[2])

\* x / n for a count n; a division by zero gives NaN, as pandas does.
RDivInt(x, n) ==
    IF IsNaN(x) \/ n = 0 THEN NaN ELSE Norm(x[1], x[2] * n)

\* Comparisons with NaN are false, as for IEEE doubles.
RLt(x, y) == ~IsNaN(x) /\ ~IsNaN(y) /\ x[1] * y[2] < y[1] * x[2]

RGt(x, y) == RLt(y, x)

RLe(x, y) == ~IsNaN(x) /\ ~IsNaN(y) /\ x[1] * y[2] <= y[1] * x[2]

\* ------------------------------------------------------------- series
Rows(col) == DOMAIN col

\* Series.isna(): the rows whose cell is missing.
isna(col) == {i \in Rows(col) : IsNaN(col[i])}

\* The non-missing cells, in row order (what every aggregation works on).
Present(s) == SelectSeq(s, LAMBDA x : ~IsNaN(x))

RECURSIVE Insert(_, _)
Insert(x, s) ==
    IF s = <<>> THEN <<x>>
    ELSE IF RLe(x, Head(s)) THEN <<x>> \o s
    ELSE <<Head(s)>> \o Insert(x, Tail(s))

RECURSIVE Sort(_)
Sort(s) == IF s = <<>> THEN <<>> ELSE Insert(Head(s), Sort(Tail(s)))

RECURSIVE Sum(_)
Sum(s) == IF s = <<>> THEN Num(0) ELSE RAdd(Head(s), Sum(Tail(s)))

\* Mutant of mean: the sum is divided by the number of rows, missing or not.
mean_all_rows(s) == RDivInt(Sum(Present(s)), Len(s))

\* Series.mean(): NaN for a series without a non-missing cell.
mean(s) == LET p == Present(s) IN RDivInt(Sum(p), Len(p))

\* Series.median(): the middle value, or the mean of the two middle values.
median(s) ==
    LET p == Sort(Present(s))
        n == Len(p)
    IN  IF n = 0 THEN NaN
        ELSE IF n % 2 = 1 THEN p[(n + 1) \div 2]
        ELSE RDivInt(RAdd(p[n \div 2], p[n \div 2 + 1]), 2)

Count(s, v) == Cardinality({i \in DOMAIN s : s[i] = v})

\* Series.value_counts(normalize=True).index: the distinct non-missing values
\* (each has a positive weight, so random.choices can draw any of them).
value_counts(s) == {s[i] : i \in DOMAIN s \ isna(s)}

\* Mutant of mode: the most frequent values in the order of the rows.
mode_first_seen(s) ==
    LET vals == value_counts(s)
        top  == {v \in vals : \A w \in vals : Count(s, w) <= Count(s, v)}
    IN  SelectSeq(Present(s), LAMBDA x : x \in top)

\* Series.mode(): the most frequent non-missing values, sorted ascending;
\* empty for a series without a non-missing cell.
mode(s) ==
    LET vals == value_counts(s)
        top  == {v \in vals : \A w \in vals : Count(s, w) <= Count(s, v)}
        pick == CHOOSE f \in [1 .. Cardinality(top) -> top] :
                    \A i \in top : \E j \in DOMAIN f : f[j] = i
    IN  IF top = {} THEN <<>> ELSE Sort(pick)

\* Series.quantile(q), linear interpolation, q = qn/qd: with p the sorted
\* non-missing values, the position is (n-1)*q (0-based), and the result
\* interpolates between the two neighbours of the position.
quantile(s, qn, qd) ==
    LET p    == Sort(Present(s))
        n    == Len(p)
        pos  == (n - 1) * qn
        lo   == pos \div qd
        frac == Norm(pos % qd, qd)
    IN  IF n = 0 THEN NaN
        ELSE IF pos % qd = 0 THEN p[lo + 1]
        ELSE RAdd(p[lo + 1], RMul(frac, RSub(p[lo + 2], p[lo + 1])))

RECURSIVE SumSq(_, _)
SumSq(s, m) ==
    IF s = <<>> THEN Num(0)
    ELSE RAdd(RMul(RSub(Head(s), m), RSub(Head(s), m)), SumSq(Tail(s), m))

\* The square of Series.std() (ddof = 1): NaN with fewer than two values.
variance(s) ==
    LET p == Present(s)
    IN  IF Len(p) < 2 THEN NaN ELSE RDivInt(SumSq(p, mean(s)), Len(p) - 1)

\* d > k * sqrt(v), decided exactly on the squares (v >= 0).
GtKSigma(d, k, v) ==
    /\ ~IsNaN(d) /\ ~IsNaN(k) /\ ~IsNaN(v)
    /\ IF k[1] >= 0
       THEN d[1] > 0 /\ RGt(RMul(d, d), RMul(RMul(k, k), v))
       ELSE d[1] > 0 \/ RLt(RMul(d, d), RMul(RMul(k, k), v))

\* ------------------------------------------------------------- arguments
\* A method argument: its Python type, its text when it is a str, its value
\* when it is a number.
Method(t, str, num) == [mtype |-> t, mstr |-> str, mnum |-> num]

Methods ==
    { Method("int", "", Num(0)), Method("float", "", Norm(5, 2)),
      Method("str", "mean", NaN), Method("str", "median", NaN),
      Method("str", "mode", NaN), Method("str", "rdbr", NaN),
      Method("str", "bogus", NaN), Method("NoneType", "", NaN) }

\* A k argument: its Python type and its value.  True is the number 1 of
\* type bool, which is neither int nor float.
K(t, num) == [ktype |-> t, knum |-> num]

GoodKs == { K("int", Num(0)), K("int", Num(1)), K("float", Norm(3, 2)) }

BadK == K("bool", Num(1))

\* The methods the outlier operations accept.
OutlierMethods ==
    {m \in Methods : m.mtype \in {"int", "float"}
                        \/ m.mstr \in {"mean", "median", "rdbr"}}

\* The argument pairs of the outlier operations: every accepted method with
\* every accepted k, every rejected method with the k of the documentation,
\* and the rejected k with an accepted and with the rejected methods.
OutlierArgs ==
    (OutlierMethods \X GoodKs)
        \cup ((Methods \ OutlierMethods) \X {K("float", Norm(3, 2))})
        \cup ({m \in Methods : m.mstr \in {"mean", "bogus"}
                                  \/ m.mtype = "NoneType"} \X {BadK})

\* The k of a fillnan call, which takes none.
NoK == K("none", NaN)

IsNumber(m) == m.mtype = "int" \/ m.mtype = "float"

\* ------------------------------------------------------------- filling
\* self.data.loc[rows, c] = v
assign(col, rows, v) == [i \in DOMAIN col |-> IF i \in rows THEN v ELSE col[i]]

\* self.data.loc[rows, c] = rdbr, one drawn value per row of the mask
assign_each(col, rows, f) ==
    [i \in DOMAIN col |-> IF i \in rows THEN f[i] ELSE col[i]]

RECURSIVE loc_from(_, _, _)
loc_from(col, rows, i) ==
    IF i > Len(col) THEN <<>>
    ELSE (IF i \in rows THEN <<col[i]>> ELSE <<>>) \o loc_from(col, rows, i + 1)

\* self.data.loc[rows, c]: the cells of the rows of the mask, in row order
loc(col, rows) == loc_from(col, rows, 1)

Ok(col) == [col |-> col, exc |-> "none"]

Raise(col, e) == [col |-> col, exc |-> e]

\* Mutant of fill: the number branch tests type(method) == int only.
fill_int_only(col, rows, basis, m) ==
    IF m.mtype = "int" THEN {Ok(assign(col, rows, m.mnum))}
    ELSE IF m.mstr = "mean" THEN {Ok(assign(col, rows, mean(basis)))}
    ELSE IF m.mstr = "median" THEN {Ok(assign(col, rows, median(basis)))}
    ELSE IF m.mstr = "rdbr" THEN
        LET ratio == value_counts(basis)
        IN  IF rows = {} THEN {Ok(col)}
            ELSE IF ratio = {} THEN {Raise(col, "IndexError")}
            ELSE {Ok(assign_each(col, rows, f)) : f \in [rows -> ratio]}
    ELSE {Ok(col)}

\* Mutant of fill: the 'median' branch takes the mean.
fill_median_as_mean(col, rows, basis, m) ==
    IF IsNumber(m) THEN {Ok(assign(col, rows, m.mnum))}
    ELSE IF m.mstr = "mean" THEN {Ok(assign(col, rows, mean(basis)))}
    ELSE IF m.mstr = "median" THEN {Ok(assign(col, rows, mean(basis)))}
    ELSE IF m.mstr = "rdbr" THEN
        LET ratio == value_counts(basis)
        IN  IF rows = {} THEN {Ok(col)}
            ELSE IF ratio = {} THEN {Raise(col, "IndexError")}
            ELSE {Ok(assign_each(col, rows, f)) : f \in [rows -> ratio]}
    ELSE {Ok(col)}

\* The four fill statements shared by the three operations: the cells of
\* `rows` are assigned the number, the mean or the median of `basis`, or one
\* value each drawn among the values of `basis`.  The result is the set of
\* possible outcomes; random.choices fails on an empty population.
fill(col, rows, basis, m) ==
    IF IsNumber(m) THEN {Ok(assign(col, rows, m.mnum))}
    ELSE IF m.mstr = "mean" THEN {Ok(assign(col, rows, mean(basis)))}
    ELSE IF m.mstr = "median" THEN {Ok(assign(col, rows, median(basis)))}
    ELSE IF m.mstr = "rdbr" THEN
        LET ratio == value_counts(basis)
        IN  IF rows = {} THEN {Ok(col)}
            ELSE IF ratio = {} THEN {Raise(col, "IndexError")}
            ELSE {Ok(assign_each(col, rows, f)) : f \in [rows -> ratio]}
    ELSE {Ok(col)}

\* Mutant of fillnan_column: the mask is the first missing cell alone.
fillnan_column_first(col, m) ==
    LET nans == {i \in isna(col) : \A j \in isna(col) : i <= j}
    IN  IF m.mstr = "mode"
        THEN IF mode(col) = <<>> THEN {Raise(col, "KeyError")}
             ELSE {Ok(assign(col, nans, mode(col)[1]))}
        ELSE fill(col, nans, col, m)

\* One iteration of the loop of fillnan: the mask is the missing cells, the
\* basis the whole column.  mode()[0] fails on an empty mode.
fillnan_column(col, m) ==
    LET nans == isna(col)
    IN  IF m.mstr = "mode"
        THEN IF mode(col) = <<>> THEN {Raise(col, "KeyError")}
             ELSE {Ok(assign(col, nans, mode(col)[1]))}
        ELSE fill(col, nans, col, m)

\* Mutant of iqr_outliers: a value on a fence is flagged too.
iqr_outliers_inclusive(col, k) ==
    LET q1    == quantile(col, 1, 4)
        q3    == quantile(col, 3, 4)
        iqr   == RMul(k, RSub(q3, q1))
        left  == RSub(q1, iqr)
        right == RAdd(q3, iqr)
    IN  {i \in DOMAIN col : RLe(col[i], left) \/ RLe(right, col[i])}

\* The outlier mask of filloutlier_iqr: strictly outside the fences.
iqr_outliers(col, k) ==
    LET q1    == quantile(col, 1, 4)
        q3    == quantile(col, 3, 4)
        iqr   == RMul(k, RSub(q3, q1))
        left  == RSub(q1, iqr)
        right == RAdd(q3, iqr)
    IN  {i \in DOMAIN col : RLt(col[i], left) \/ RGt(col[i], right)}

\* Mutant of sigma_outliers: every cell that is not inside the bounds is
\* flagged, a missing cell included.
sigma_outliers_not_inside(col, k) ==
    LET mu == mean(col)
        v  == variance(col)
    IN  {i \in DOMAIN col :
            \/ IsNaN(col[i])
            \/ GtKSigma(RSub(mu, col[i]), k, v)
            \/ GtKSigma(RSub(col[i], mu), k, v)}

\* The outlier mask of filloutlier_sigma: strictly outside mean -+ k * std.
sigma_outliers(col, k) ==
    LET mu == mean(col)
        v  == variance(col)
    IN  {i \in DOMAIN col :
            \/ GtKSigma(RSub(mu, col[i]), k, v)
            \/ GtKSigma(RSub(col[i], mu), k, v)}

\* Mutant of filloutlier_column: the basis is the whole column.
filloutlier_column_whole(col, outliers, m) == fill(col, outliers, col, m)

\* One iteration of the loop of an outlier operation.
filloutlier_column(col, outliers, m) ==
    LET no_outliers == loc(col, DOMAIN col \ outliers)
    IN  fill(col, outliers, no_outliers, m)

\* The mask one iteration of the loop of `op` computes on a column.
mask_of(op, col, k) ==
    IF op = "fillnan" THEN isna(col)
    ELSE IF op = "filloutlier_iqr" THEN iqr_outliers(col, k.knum)
    ELSE sigma_outliers(col, k.knum)

column_step(op, col, m, k) ==
    IF op = "fillnan" THEN fillnan_column(col, m)
    ELSE filloutlier_column(col, mask_of(op, col, k), m)

\* The loop `for c in self.columns` of an operation, from the table tbl on
\* the columns cs: the set of possible results, each the table reached, the
\* cells the masks selected, and the exception that ended the loop, if any.
\* A column that is not in the table fails the lookup self.data[c].
RECURSIVE loop(_, _, _, _, _, _)
loop(op, m, k, tbl, msk, cs) ==
    IF cs = <<>> THEN {[data |-> tbl, mask |-> msk, exc |-> "none"]}
    ELSE
        LET c == Head(cs)
        IN  IF c \notin DOMAIN tbl
            THEN {[data |-> tbl, mask |-> msk, exc |-> "KeyError"]}
            ELSE
                LET sel == mask_of(op, tbl[c], k)
                    m2  == [msk EXCEPT ![c] = @ \cup sel]
                IN  UNION {
                      IF r.exc = "none"
                      THEN loop(op, m, k, [tbl EXCEPT ![c] = r.col], m2, Tail(cs))
                      ELSE {[data |-> [tbl EXCEPT ![c] = r.col], mask |-> m2,
                             exc |-> r.exc]}
                      : r \in column_step(op, tbl[c], m, k) }

\* The checks at the start of fillnan.
fillnan_errors(m) ==
    IF m.mtype \notin {"str", "int", "float"} THEN "TypeError"
    ELSE IF m.mtype = "str" /\ m.mstr \notin {"mean", "median", "mode", "rdbr"}
    THEN "ValueError"
    ELSE "none"

\* The checks at the start of filloutlier_iqr and filloutlier_sigma.
filloutlier_errors(m, k) ==
    IF m.mtype \notin {"str", "int", "float"} THEN "TypeError"
    ELSE IF k.ktype \notin {"int", "float"} THEN "TypeError"
    ELSE IF m.mtype = "str" /\ m.mstr \notin {"mean", "median", "rdbr"}
    THEN "ValueError"
    ELSE "none"

errors(op, m, k) ==
    IF op = "fillnan" THEN fillnan_errors(m) ELSE filloutlier_errors(m, k)

\* ------------------------------------------------------------- state
VARIABLES
    heap,          \* the table objects: "df0" is the caller's, "df1" the copy
    self_data,     \* self.data: the object the Filler works on
    self_columns,  \* self.columns
    pc,            \* "new", "ready" (constructed) or "raised" (no instance)
    orig,          \* the caller's table as it was before construction
    pre,           \* the stored table when the last call started
    last,          \* the last call: operation, arguments, exception raised
    mask,          \* the cells the masks of the last call selected, by column
    again,         \* the last call repeats the call before it
    ncalls         \* calls made so far

vars == <<heap, self_data, self_columns, pc, orig, pre, last, mask, again, ncalls>>

Cells == {NaN} \cup {Num(n) : n \in 0 .. MaxVal}

\* The column of the example of the documentation of the IQR rule.
Example == <<Num(1), Num(2), Num(3), Num(4), Num(100)>>

\* Column "a" of the caller's table.
ColumnsA == [1 .. MaxRows -> Cells] \cup {Example}

\* Column "b": a missing cell, then ones, then a far value.
ColumnB(n) ==
    [i \in 1 .. n |-> IF i = 1 THEN NaN ELSE IF i = n THEN Num(9) ELSE Num(1)]

\* The column selections: one column, a repeated column, two columns, and a
\* column the table does not have.
Selections == { <<"a">>, <<"a", "a">>, <<"b", "a">>, <<"a", "z">> }

Unallocated == [a |-> <<>>, b |-> <<>>]

NoMask == [a |-> {}, b |-> {}]

NoCall == [op |-> "none", m |-> Method("NoneType", "", NaN), k |-> NoK,
           exc |-> "none"]

\* The table the Filler works on.
Stored == heap[self_data]

Init ==
    /\ \E a \in ColumnsA :
          heap = [df0 |-> [a |-> a, b |-> ColumnB(Len(a))], df1 |-> Unallocated]
    /\ self_data = "df0"
    /\ self_columns = <<>>
    /\ pc = "new"
    /\ orig = heap["df0"]
    /\ pre = Unallocated
    /\ last = NoCall
    /\ mask = NoMask
    /\ again = FALSE
    /\ ncalls = 0

\* Mutant of copy: self.data = data, no copy taken.
copy_alias(h, ref) == [heap |-> h, ref |-> ref]

\* data.copy(deep=True): a new object with the same cells.
copy(h, ref) == [heap |-> [h EXCEPT !["df1"] = h[ref]], ref |-> "df1"]

\* Filler(data, columns): the type checks, then the copy.
Filler_init ==
    /\ pc = "new"
    /\ \E dataType \in {"DataFrame", "dict"},
          colsType \in {"Index", "list", "tuple", "str"},
          columns \in Selections :
          IF dataType # "DataFrame" \/ colsType \notin {"Index", "list", "tuple"}
          THEN /\ pc' = "raised"
               /\ UNCHANGED <<heap, self_data, self_columns>>
          ELSE LET c == copy(heap, "df0")
               IN  /\ heap' = c.heap
                   /\ self_data' = c.ref
                   /\ self_columns' = columns
                   /\ pc' = "ready"
    /\ UNCHANGED <<orig, pre, last, mask, again, ncalls>>

\* Mutant of Call: the checks are made after the loop.
Call_late(op, m, k) ==
    /\ pc = "ready"
    /\ ncalls < MaxCalls
    /\ \E r \in loop(op, m, k, Stored, NoMask, self_columns) :
          LET e == errors(op, m, k)
          IN  /\ heap' = [heap EXCEPT ![self_data] = r.data]
              /\ mask' = r.mask
              /\ last' = [op |-> op, m |-> m, k |-> k,
                          exc |-> IF e # "none" THEN e ELSE r.exc]
    /\ pre' = Stored
    /\ again' = (last.op = op /\ last.m = m /\ last.k = k)
    /\ ncalls' = ncalls + 1
    /\ UNCHANGED <<self_data, self_columns, pc, orig>>

\* One call of an operation: the checks, which raise before the loop, then
\* the loop over self.columns on the stored table.
Call(op, m, k) ==
    /\ pc = "ready"
    /\ ncalls < MaxCalls
    /\ LET e == errors(op, m, k)
       IN  IF e # "none"
           THEN /\ heap' = heap
                /\ mask' = NoMask
                /\ last' = [op |-> op, m |-> m, k |-> k, exc |-> e]
           ELSE \E r \in loop(op, m, k, Stored, NoMask, self_columns) :
                /\ heap' = [heap EXCEPT ![self_data] = r.data]
                /\ mask' = r.mask
                /\ last' = [op |-> op, m |-> m, k |-> k, exc |-> r.exc]
    /\ pre' = Stored
    /\ again' = (last.op = op /\ last.m = m /\ last.k = k)
    /\ ncalls' = ncalls + 1
    /\ UNCHANGED <<self_data, self_columns, pc, orig>>

fillnan == \E m \in Methods : Call("fillnan", m, NoK)

filloutlier_iqr == \E a \in OutlierArgs : Call("filloutlier_iqr", a[1], a[2])

filloutlier_sigma ==
    \E a \in OutlierArgs : Call("filloutlier_sigma", a[1], a[2])

Next == Filler_init \/ fillnan \/ filloutlier_iqr \/ filloutlier_sigma

Spec == Init /\ [][Next]_vars

\* ------------------------------------------------------------- properties
Called == last.op # "none"

\* The last call returned the table.
Returned == Called /\ last.exc = "none"

\* The configured columns the table has.
Configured == {self_columns[i] : i \in DOMAIN self_columns} \cap DOMAIN Stored

\* How many times the selection names the column c.
Occurs(c) == Cardinality({i \in DOMAIN self_columns : self_columns[i] = c})

\* The cells of column c the last call changed.
Changed(c) == {i \in DOMAIN pre[c] : Stored[c][i] # pre[c][i]}

\* C1: the table passed to the constructor is never modified: after the
\* construction and any calls, with accepted or rejected arguments, every
\* cell of the caller's table is what it was before the construction.
C1_CallerTableUntouched == heap["df0"] = orig

\* A call changed the stored copy, which now differs from the caller's table.
C1_Witness ==
    /\ Called
    /\ self_data = "df1"
    /\ Stored # pre
    /\ Stored # heap["df0"]

\* C2: a call that raises a type error or a value error leaves the stored
\* table as it was when the call started.
C2_RejectedCallChangesNothing ==
    (Called /\ last.exc \in {"TypeError", "ValueError"}) => Stored = pre

\* An outlier call rejected for its k alone, on a column that the same call
\* with the number 1 for k would have changed.
C2_Witness ==
    /\ last.op = "filloutlier_sigma"
    /\ last.exc = "TypeError"
    /\ last.m.mstr = "mean"
    /\ last.k = BadK
    /\ self_columns = <<"a">>
    /\ sigma_outliers(Stored["a"], Num(1)) # {}

\* A call rejected with a value error: 'mode' given to an outlier operation,
\* on a column with outliers.
C2_WitnessValueError ==
    /\ last.op = "filloutlier_iqr"
    /\ last.exc = "ValueError"
    /\ last.m.mstr = "mode"
    /\ iqr_outliers(Stored["a"], last.k.knum) # {}

\* C3: after fillnan(v) with a number v, every cell of a configured column
\* that was missing when the call started equals v.
C3_NumberFillsEveryMissingCell ==
    (Returned /\ last.op = "fillnan" /\ IsNumber(last.m)) =>
        \A c \in Configured : \A i \in DOMAIN pre[c] :
            IsNaN(pre[c][i]) => Stored[c][i] = last.m.mnum

\* fillnan(2.5) returned on a column that had two missing cells.
C3_Witness ==
    /\ Returned /\ last.op = "fillnan"
    /\ last.m = Method("float", "", Norm(5, 2))
    /\ "a" \in Configured
    /\ Cardinality(isna(pre["a"])) >= 2
    /\ \A i \in isna(pre["a"]) : Stored["a"][i] = Norm(5, 2)

\* C4: after fillnan('mean'), every cell of a configured column that was
\* missing when the call started equals the mean of the non-missing values
\* the column had when the call started (their sum over their number; a
\* column without one stays missing), also for a column named twice.
C4_MeanIsThePreFillMean ==
    (Returned /\ last.op = "fillnan" /\ last.m.mstr = "mean") =>
        \A c \in Configured : \A i \in isna(pre[c]) :
            LET p == Present(pre[c])
            IN  IF Len(p) = 0 THEN IsNaN(Stored[c][i])
                ELSE /\ ~IsNaN(Stored[c][i])
                     /\ RMul(Stored[c][i], Num(Len(p))) = Sum(p)

\* fillnan('mean') returned with column "a" named twice, which had a missing
\* cell and two values whose mean is neither of them.
C4_Witness ==
    /\ Returned /\ last.op = "fillnan" /\ last.m.mstr = "mean"
    /\ self_columns = <<"a", "a">>
    /\ isna(pre["a"]) # {}
    /\ \A i \in isna(pre["a"]) :
          ~IsNaN(Stored["a"][i]) /\ Stored["a"][i] \notin value_counts(pre["a"])

\* The in-distribution values of a column for the last call: the non-missing
\* values for fillnan, the non-missing values inside the bounds for the
\* outlier operations.
InDistribution(col) ==
    IF last.op = "fillnan" THEN {col[i] : i \in DOMAIN col \ isna(col)}
    ELSE {col[i] : i \in (DOMAIN col \ isna(col)) \ mask_of(last.op, col, last.k)}

\* C5: the 'rdbr' fill writes only in-distribution values: every cell a call
\* with 'rdbr' changed holds one of the in-distribution values the column had
\* when the call started.
C5_RdbrWritesInDistributionValues ==
    (Called /\ last.m.mstr = "rdbr") =>
        \A c \in DOMAIN Stored : \A i \in Changed(c) :
            Stored[c][i] \in InDistribution(pre[c])

\* An outlier call with 'rdbr' replaced an outlier of a column that had two
\* or more in-bound values and an out-of-bound one.
C5_Witness ==
    /\ Returned /\ last.op = "filloutlier_sigma" /\ last.m.mstr = "rdbr"
    /\ Changed("a") # {}
    /\ Cardinality(InDistribution(pre["a"])) >= 2
    /\ value_counts(pre["a"]) # InDistribution(pre["a"])

\* fillnan('rdbr') filled a column that had two values to draw from.
C5_WitnessFillnan ==
    /\ Returned /\ last.op = "fillnan" /\ last.m.mstr = "rdbr"
    /\ Changed("a") # {}
    /\ Cardinality(InDistribution(pre["a"])) >= 2

\* C6: fillnan(0) called twice in a row: the second call leaves the stored
\* table as the first call left it.
C6_ConstantFillIdempotent ==
    (Called /\ again /\ last.op = "fillnan" /\ last.m = Method("int", "", Num(0)))
        => Stored = pre

\* The second of two fillnan(0) calls returned, on a column that had two
\* missing cells at construction, both zero now.
C6_Witness ==
    /\ Returned /\ again /\ ncalls = 2
    /\ last.op = "fillnan" /\ last.m = Method("int", "", Num(0))
    /\ "a" \in Configured
    /\ Cardinality(isna(orig["a"])) >= 2
    /\ \A i \in isna(orig["a"]) : Stored["a"][i] = Num(0)

\* The cells of a column strictly outside the fences Q1 - k*(Q3-Q1) and
\* Q3 + k*(Q3-Q1).
OutsideFences(col, k) ==
    LET q1 == quantile(col, 1, 4)
        q3 == quantile(col, 3, 4)
        w  == RMul(k, RSub(q3, q1))
    IN  {i \in DOMAIN col :
            /\ ~IsNaN(col[i])
            /\ \/ RLt(col[i], RSub(q1, w))
               \/ RGt(col[i], RAdd(q3, w))}

\* C7: filloutlier_iqr flags a cell exactly when its value is strictly below
\* Q1 - k*(Q3-Q1) or strictly above Q3 + k*(Q3-Q1); for the column
\* [1,2,3,4,100] and k = 1.5, Q1 = 2, Q3 = 4 and only 100 is flagged.
C7_IqrFlagsStrictlyOutside ==
    (Returned /\ last.op = "filloutlier_iqr") =>
        \A c \in Configured : Occurs(c) = 1 =>
            /\ mask[c] = OutsideFences(pre[c], last.k.knum)
            /\ (pre[c] = Example /\ last.k.knum = Norm(3, 2)) =>
                  /\ quantile(pre[c], 1, 4) = Num(2)
                  /\ quantile(pre[c], 3, 4) = Num(4)
                  /\ mask[c] = {5}

\* filloutlier_iqr with k = 1.5 returned on the column [1,2,3,4,100] and
\* replaced the 100 alone.
C7_Witness ==
    /\ Returned /\ last.op = "filloutlier_iqr" /\ last.k.knum = Norm(3, 2)
    /\ pre["a"] = Example
    /\ self_columns = <<"a">>
    /\ Changed("a") = {5}

\* filloutlier_iqr returned on a column with a value on a fence and a value
\* beyond the other fence.
C7_WitnessOnFence ==
    /\ Returned /\ last.op = "filloutlier_iqr"
    /\ self_columns = <<"a">>
    /\ mask["a"] # {}
    /\ LET q1 == quantile(pre["a"], 1, 4)
           q3 == quantile(pre["a"], 3, 4)
           w  == RMul(last.k.knum, RSub(q3, q1))
       IN  \E i \in DOMAIN pre["a"] :
              pre["a"][i] = RSub(q1, w) \/ pre["a"][i] = RAdd(q3, w)

\* The least of the most frequent non-missing values of a column.
LeastModal(col, v) ==
    /\ \E i \in DOMAIN col : col[i] = v /\ ~IsNaN(v)
    /\ \A j \in DOMAIN col \ isna(col) :
          \/ Count(col, col[j]) < Count(col, v)
          \/ Count(col, col[j]) = Count(col, v) /\ RLe(v, col[j])

\* C8: fillnan('mode') writes into every missing cell of a configured column
\* the most frequent non-missing value the column had, and the least of them
\* when several tie (the mode result is in ascending order).
C8_ModeIsLeastMostFrequent ==
    (Returned /\ last.op = "fillnan" /\ last.m.mstr = "mode") =>
        \A c \in Configured : \A i \in isna(pre[c]) :
            LeastModal(pre[c], Stored[c][i])

\* fillnan('mode') returned on a column whose first row held the greater of
\* two values tied for most frequent; the missing cell holds the lesser.
C8_Witness ==
    /\ Returned /\ last.op = "fillnan" /\ last.m.mstr = "mode"
    /\ "a" \in Configured
    /\ isna(pre["a"]) # {}
    /\ ~IsNaN(pre["a"][1])
    /\ \A i \in isna(pre["a"]) : RLt(Stored["a"][i], pre["a"][1])
    /\ \E i \in isna(pre["a"]) :
          Count(pre["a"], Stored["a"][i]) = Count(pre["a"], pre["a"][1])

IsOutlierCall == last.op \in {"filloutlier_iqr", "filloutlier_sigma"}

\* The cells of column c the last call flagged when it started.
Flagged(c) == mask_of(last.op, pre[c], last.k)

\* The non-missing cells of column c the last call did not flag.
InBound(c) == Present(loc(pre[c], DOMAIN pre[c] \ Flagged(c)))

\* The mean or the median, as the last call asked, of the in-bound cells.
Statistic(c) ==
    IF last.m.mstr = "mean" THEN RDivInt(Sum(InBound(c)), Len(InBound(c)))
    ELSE median(InBound(c))

\* v lies between the least and the greatest in-bound value of column c.
InRange(c, v) ==
    /\ \E j \in DOMAIN InBound(c) : RLe(InBound(c)[j], v)
    /\ \E j \in DOMAIN InBound(c) : RLe(v, InBound(c)[j])

\* C9 as stated: an outlier call with 'mean' or 'median' writes into every
\* flagged cell the mean (median) of the column's non-flagged, non-missing
\* values, and the value written always lies within their range.
C9_FillStatisticInRange ==
    (Returned /\ IsOutlierCall /\ last.m.mstr \in {"mean", "median"}) =>
        \A c \in Configured : Occurs(c) = 1 =>
            \A i \in Flagged(c) :
                /\ Stored[c][i] = Statistic(c)
                /\ InRange(c, Stored[c][i])

\* C9 as amended: the value written into every flagged cell is the mean
\* (median) of the column's non-flagged, non-missing values; it lies within
\* their range when there is one, and is missing when every non-missing
\* value of the column was flagged.
C9_FillStatisticOfInBound ==
    (Returned /\ IsOutlierCall /\ last.m.mstr \in {"mean", "median"}) =>
        \A c \in Configured : Occurs(c) = 1 =>
            \A i \in Flagged(c) :
                /\ Stored[c][i] = Statistic(c)
                /\ IF InBound(c) = <<>> THEN IsNaN(Stored[c][i])
                   ELSE InRange(c, Stored[c][i])

\* An outlier call with 'median' replaced a flagged cell by the median of
\* the in-bound values, which is not their mean nor the median of the whole
\* column.
C9_Witness ==
    /\ Returned /\ IsOutlierCall /\ last.m.mstr = "median"
    /\ self_columns = <<"a">>
    /\ Changed("a") # {}
    /\ InBound("a") # <<>>
    /\ \A i \in Flagged("a") :
          /\ Stored["a"][i] = median(InBound("a"))
          /\ Stored["a"][i] # median(pre["a"])
          /\ Stored["a"][i] # RDivInt(Sum(InBound("a")), Len(InBound("a")))

\* An outlier call with 'mean' flagged every non-missing value of a column
\* and wrote the missing value into all of them.
C9_WitnessNoInBound ==
    /\ Returned /\ IsOutlierCall /\ last.m.mstr = "mean"
    /\ self_columns = <<"a">>
    /\ Flagged("a") # {}
    /\ InBound("a") = <<>>
    /\ \A i \in Flagged("a") : IsNaN(Stored["a"][i])

\* C10: the frame of a call that returned.  fillnan changes only cells of
\* configured columns that were missing when the call started; the outlier
\* operations change only cells of configured columns that they flagged, and
\* neither flag nor change a missing cell.  The columns outside the
\* selection, the number of rows and the set of columns are unchanged.
C10_Frame ==
    Returned =>
        /\ DOMAIN Stored = DOMAIN pre
        /\ \A c \in DOMAIN Stored :
              /\ DOMAIN Stored[c] = DOMAIN pre[c]
              /\ c \notin Configured => Stored[c] = pre[c]
              /\ last.op = "fillnan" => Changed(c) \subseteq isna(pre[c])
              /\ IsOutlierCall =>
                    /\ Changed(c) \subseteq mask[c]
                    /\ Occurs(c) = 1 => Changed(c) \subseteq Flagged(c)
                    /\ \A i \in isna(pre[c]) :
                          IsNaN(Stored[c][i]) /\ i \notin mask[c]

\* An outlier call returned that changed flagged cells of column "a", which
\* has a missing cell, and the selection leaves out column "b", which has a
\* missing cell and an outlier of its own.
C10_Witness ==
    /\ Returned /\ last.op = "filloutlier_sigma"
    /\ self_columns = <<"a">>
    /\ Changed("a") # {}
    /\ isna(pre["a"]) # {}
    /\ isna(Stored["b"]) # {}
    /\ sigma_outliers(Stored["b"], last.k.knum) # {}

====
